---------------------------- MODULE Spec2Model ----------------------------
(***************************************************************************)
(* Speech feedback generator: main.py starts one thread per audio file;    *)
(* each thread constructs a SpeechFeedbackGenerator (decode, transcribe,   *)
(* tokenize, load the three lexicons) and prints its summary.              *)
(*                                                                         *)
(* Strings are sequences of one-character strings, so that str.split(),    *)
(* str.split("\n") and str.lower() are computed and not assumed.           *)
(* A Python float is the exact rational it stands for, [num, den]; the     *)
(* durations of the model are multiples of 1/DurDen second.  For the word  *)
(* counts of the model the rounding of IEEE doubles changes none of the    *)
(* comparisons made by the code (the literal 1.28 is the double just above *)
(* 128/100, and 8/625*100 rounds to that same double).                     *)
(***************************************************************************)
EXTENDS Integers, Sequences, FiniteSets, TLC

VARIABLES
    audio_files,        \* main.py: result of glob.glob("./audio_files/*")
    next_audio,         \* main.py: position of the for loop over audio_files
    data_files,         \* the directory data_files/: lexicon name -> file
    opens,              \* history: how many times each thread has opened each lexicon file
    pc,                 \* per thread / object: position in get_summary and __init__
    path_to_audio,      \* self.path_to_audio
    audio_data,         \* self.audio_data
    text_from_speech,   \* self.text_from_speech
    word_list,          \* self.word_list
    filtered_word_list, \* self.filtered_word_list
    filler_words,       \* self.filler_words
    profane_words,      \* self.profane_words
    slang_words,        \* self.slang_words
    ret,                \* per thread / object: outcome of the last call made on it
    stdout              \* per thread: what the thread has printed, in order

vars == <<audio_files, next_audio, data_files, opens, pc, path_to_audio,
          audio_data, text_from_speech, word_list, filtered_word_list,
          filler_words, profane_words, slang_words, ret, stdout>>

attrs == <<path_to_audio, audio_data, text_from_speech, word_list,
           filtered_word_list, filler_words, profane_words, slang_words>>

-----------------------------------------------------------------------------
(* Bounds of the model *)

\* most threads main.py starts (files in ./audio_files)
MaxThreads == 2
\* longest transcript, in tokens, of the exhaustive transcripts
MaxWords == 3
\* longest transcript, in tokens, of the speech-rate family
MaxRateWords == 8
\* longest duration of the speech-rate family, in 1/DurDen seconds
MaxDuration == 7
\* resolution of durations: a duration is a multiple of 1/DurDen second
DurDen == 2
\* token count of the long transcripts of the filler-ratio family
LongWords == 625
\* most filler tokens in a long transcript
MaxFillers == 9

-----------------------------------------------------------------------------
(* Python strings *)

Whitespace == {" ", "\t", "\n"}

UpperCase == <<"A","B","C","D","E","F","G","H","I","J","K","L","M",
               "N","O","P","Q","R","S","T","U","V","W","X","Y","Z">>
LowerCase == <<"a","b","c","d","e","f","g","h","i","j","k","l","m",
               "n","o","p","q","r","s","t","u","v","w","x","y","z">>

ToLower ==
    [c \in {UpperCase[i] : i \in DOMAIN UpperCase} |->
        LowerCase[CHOOSE i \in DOMAIN UpperCase : UpperCase[i] = c]]

LowerChar(c) == IF c \in DOMAIN ToLower THEN ToLower[c] ELSE c

\* str.lower()
Lower(s) == [i \in DOMAIN s |-> LowerChar(s[i])]

\* str.split(): the maximal runs of non-whitespace characters, in order.
\* A run starts where a non-whitespace character follows whitespace or opens
\* the text, and ends where one precedes whitespace or closes the text; the
\* k-th word goes from the k-th start to the k-th end.
Split(text) ==
    LET n         == Len(text)
        positions == [i \in 1..n |-> i]
        InWord(i) == text[i] \notin Whitespace
        starts    == SelectSeq(positions, LAMBDA i : InWord(i) /\ (i = 1 \/ ~InWord(i - 1)))
        ends      == SelectSeq(positions, LAMBDA i : InWord(i) /\ (i = n \/ ~InWord(i + 1)))
    IN  [k \in 1..Len(starts) |-> SubSeq(text, starts[k], ends[k])]

\* str.split("\n"): the pieces between newlines, empty pieces kept.
RECURSIVE SplitLines(_)
SplitLines(text) ==
    LET nl == {i \in DOMAIN text : text[i] = "\n"}
    IN  IF nl = {} THEN <<text>>
        ELSE LET p == CHOOSE i \in nl : \A j \in nl : i <= j
             IN  <<SubSeq(text, 1, p - 1)>> \o SplitLines(SubSeq(text, p + 1, Len(text)))

\* x in a_list
InList(x, l) == \E i \in DOMAIN l : l[i] = x

-----------------------------------------------------------------------------
(* Words of the model *)

HESITATION == <<"%","H","E","S","I","T","A","T","I","O","N">>
hesitation == <<"%","h","e","s","i","t","a","t","i","o","n">>
the  == <<"t","h","e">>
The  == <<"T","h","e">>
um   == <<"u","m">>
UM   == <<"U","M">>
talk == <<"t","a","l","k">>
like == <<"l","i","k","e">>
damn == <<"d","a","m","n">>
lit  == <<"l","i","t">>

\* nltk.corpus.stopwords.words('english'): entries of that list
StopWords == {the, <<"a">>, <<"i">>, <<"i","s">>, <<"a","n","d">>, <<"y","o","u">>}

\* the tokens the recognizer's transcripts are made of
Vocabulary == {HESITATION, hesitation, The, um, UM, talk}

\* sequences over S of length 0..n
RECURSIVE SeqsUpTo(_, _)
SeqsUpTo(S, n) ==
    IF n = 0 THEN {<<>>}
    ELSE LET shorter == SeqsUpTo(S, n - 1)
         IN  shorter \cup {Append(q, x) : q \in shorter, x \in S}

\* the text whose pieces are the given strings, each followed by sep
RECURSIVE Join(_, _)
Join(pieces, sep) ==
    IF pieces = <<>> THEN <<>>
    ELSE Head(pieces) \o sep \o Join(Tail(pieces), sep)

\* k copies of a text, by halving
RECURSIVE Repeat(_, _)
Repeat(text, k) ==
    IF k = 0 THEN <<>>
    ELSE LET half == Repeat(text, k \div 2)
         IN  IF k % 2 = 0 THEN half \o half ELSE half \o half \o text

-----------------------------------------------------------------------------
(* The environment: audio files, the recognizer's answers, data_files/ *)

\* a file of data_files/: present with its content, or absent
TextFile(content) == [exists |-> TRUE, content |-> content]
Missing == [exists |-> FALSE, content |-> <<>>]

\* An audio file, with what the collaborators answer for it: whether
\* audioread can open it, its metadata (duration in 1/DurDen seconds),
\* whether the recognition request succeeds, and the transcript returned.
AudioFile(dec, dur, rec, text) ==
    [decodable |-> dec, channels |-> 1, sample_rate |-> 16000, duration |-> dur,
     recognizable |-> rec, transcript |-> text]

\* exhaustive short transcripts, one second long
ShortFiles ==
    {AudioFile(TRUE, DurDen, TRUE, Join(ws, <<" ">>)) : ws \in SeqsUpTo(Vocabulary, MaxWords)}
    \cup {AudioFile(TRUE, DurDen, TRUE, <<" ", "\n", " ">>)}

\* speech-rate family: n plain words over every duration, zero included
RateFiles ==
    {AudioFile(TRUE, d, TRUE, Repeat(talk \o <<" ">>, n)) :
        n \in 0..MaxRateWords, d \in 0..MaxDuration}

\* filler-ratio family: the largest filler counts among LongWords words,
\* five minutes long
LongFiles ==
    {AudioFile(TRUE, 5 * 60 * DurDen, TRUE,
               Repeat(um \o <<" ">>, f) \o Repeat(talk \o <<" ">>, LongWords - f)) :
        f \in (MaxFillers - 2)..MaxFillers}

\* files the collaborators fail on
Broken       == AudioFile(FALSE, DurDen, TRUE, Join(<<talk>>, <<" ">>))
Unrecognised == AudioFile(TRUE, DurDen, FALSE, Join(<<talk>>, <<" ">>))

AnalysisFiles == ShortFiles \cup {Broken, Unrecognised}

\* the files main.py may find in ./audio_files
GoodA  == AudioFile(TRUE, 2 * DurDen, TRUE, Join(<<The, um, talk, talk>>, <<" ">>))
GoodB  == AudioFile(TRUE, DurDen, TRUE, Join(<<HESITATION, talk, UM>>, <<" ">>))
Silent == AudioFile(TRUE, DurDen, TRUE, <<>>)
MainFiles == {GoodA, GoodB, Broken, Unrecognised, Silent}

LexiconNames == {"filler", "profane", "slang"}

\* data_files/ as shipped: one lower-case word per line
PlainDir ==
    [filler  |-> TextFile(Join(<<um, like>>, <<"\n">>)),
     profane |-> TextFile(Join(<<damn>>, <<"\n">>)),
     slang   |-> TextFile(Join(<<lit>>, <<"\n">>))]

\* lexicons that hold a stop word, the lower-cased and the literal sentinel
OddDir ==
    [filler  |-> TextFile(Join(<<the, hesitation>>, <<"\n">>)),
     profane |-> TextFile(Join(<<the, um>>, <<"\n">>)),
     slang   |-> TextFile(Join(<<the, HESITATION>>, <<"\n">>))]

NoSlangDir   == [PlainDir EXCEPT !.slang = Missing]
NoProfaneDir == [PlainDir EXCEPT !.profane = Missing]
NoFillerDir  == [PlainDir EXCEPT !.filler = Missing]

DataDirs == {PlainDir, OddDir, NoSlangDir, NoProfaneDir, NoFillerDir}

-----------------------------------------------------------------------------
(* Python values *)

None == "None"

Return(v) == [outcome |-> "return", value |-> v]
Raise(e)  == [outcome |-> "raise", value |-> e]

\* a float, as the rational num/den with den > 0
Float(n, d) == [num |-> n, den |-> d]
FloatGT(x, y) == x.num * y.den > y.num * x.den
FloatLT(x, y) == x.num * y.den < y.num * x.den

\* the object's attributes, as the methods read them
Self(t) ==
    [path_to_audio |-> path_to_audio[t], audio_data |-> audio_data[t],
     text_from_speech |-> text_from_speech[t], word_list |-> word_list[t],
     filtered_word_list |-> filtered_word_list[t], filler_words |-> filler_words[t],
     profane_words |-> profane_words[t], slang_words |-> slang_words[t]]

-----------------------------------------------------------------------------
(* SpeechFeedbackGenerator: the methods *)

SecondsPerMinute == 60
FastRate == 160
SlowRate == 140
Percent == 100
\* the literal 1.28
FillerLimit == Float(128, 100)

SpeedFast   == "Your speech speed is faster than recommended rate. You may consider speaking more slowly."
SpeedSlow   == "Your speech speed is slower than recommended rate. You may consider speaking faster."
SpeedOk     == "Your speech speed is within recommended range."
FillerHigh  == "The number of filler words is higher than recommended. This may make speech seem less credible."
FillerOk    == "The number of filler words is within recommended range."
ProfaneNone == "No profane words found."
ProfaneSome == "Some potentially profane words found. It might be better to avoid them unless necessary."
SlangNone   == "No slang words found."
SlangSome   == "Some potentially slang words found. It might be better to avoid them unless necessary."
RepeatNone  == "No word repetition found."
RepeatSome  == "There are some word repetitions in your speech. You may have a look at how many times each word is repeated and consider reducing the number of repetitions."

\* len(self.word_list) / self.audio_data['duration'] * 60
check_speech_speed(self) ==
    LET words    == Len(self.word_list)
        duration == self.audio_data.duration
    IN  IF duration = 0
        THEN Raise("ZeroDivisionError")
        ELSE Return(Float(words * DurDen * SecondsPerMinute, duration))

\* mutant: every word is lower-cased, the sentinel too
RepetitionKeyLowered(word) == Lower(word)

\* the key a word is counted under in fdist
RepetitionKey(word) == IF word = HESITATION THEN HESITATION ELSE Lower(word)

\* fdist after the loop over self.filtered_word_list
FreqDist(words) ==
    [k \in {RepetitionKey(words[i]) : i \in DOMAIN words} |->
        Cardinality({i \in DOMAIN words : RepetitionKey(words[i]) = k})]

\* mutant: the words counted once are kept
RepeatedOnlyFromOne(fdist) ==
    [k \in {w \in DOMAIN fdist : fdist[w] >= 1} |-> fdist[k]]

\* {word: count for word, count in dict(fdist).items() if count > 1}
RepeatedOnly(fdist) ==
    [k \in {w \in DOMAIN fdist : fdist[w] > 1} |-> fdist[k]]

check_word_repetition(self) == RepeatedOnly(FreqDist(self.filtered_word_list))

IsFiller(self, word) == InList(Lower(word), self.filler_words) \/ word = HESITATION
IsProfane(self, word) == InList(Lower(word), self.profane_words)
IsSlang(self, word) == InList(Lower(word), self.slang_words)

\* the loops that append the matching words of self.word_list
check_filler_words(self) == SelectSeq(self.word_list, LAMBDA word : IsFiller(self, word))
\* mutant: the lower-cased word is appended
check_profanity_lowered(self) ==
    LET found == SelectSeq(self.word_list, LAMBDA word : IsProfane(self, word))
    IN  [i \in DOMAIN found |-> Lower(found[i])]
check_profanity(self) == SelectSeq(self.word_list, LAMBDA word : IsProfane(self, word))
check_slang_words(self) == SelectSeq(self.word_list, LAMBDA word : IsSlang(self, word))

\* mutant: the limits taken as inclusive
SpeedFeedbackInclusive(speech_speed) ==
    IF ~FloatLT(speech_speed, Float(FastRate, 1)) THEN SpeedFast
    ELSE IF ~FloatGT(speech_speed, Float(SlowRate, 1)) THEN SpeedSlow
    ELSE SpeedOk

SpeedFeedback(speech_speed) ==
    IF FloatGT(speech_speed, Float(FastRate, 1)) THEN SpeedFast
    ELSE IF FloatLT(speech_speed, Float(SlowRate, 1)) THEN SpeedSlow
    ELSE SpeedOk

\* mutant: the limit taken as inclusive
FillerFeedbackInclusive(filler_word_count, total_word_count) ==
    IF ~FloatLT(Float(filler_word_count * Percent, total_word_count), FillerLimit)
    THEN FillerHigh ELSE FillerOk

FillerFeedback(filler_word_count, total_word_count) ==
    IF FloatGT(Float(filler_word_count * Percent, total_word_count), FillerLimit)
    THEN FillerHigh ELSE FillerOk

ProfaneFeedback(profane_word_count) == IF profane_word_count = 0 THEN ProfaneNone ELSE ProfaneSome
SlangFeedback(slang_word_count) == IF slang_word_count = 0 THEN SlangNone ELSE SlangSome
RepetitionFeedback(repeated_words_count) == IF repeated_words_count = 0 THEN RepeatNone ELSE RepeatSome

generate_feedback(self) ==
    LET speech_speed     == check_speech_speed(self)
        total_word_count == Len(self.word_list)
    IN  IF speech_speed.outcome = "raise" THEN speech_speed
        ELSE IF total_word_count = 0 THEN Raise("ZeroDivisionError")
        ELSE Return(
            [speech_speed    |-> SpeedFeedback(speech_speed.value),
             filler_words    |-> FillerFeedback(Len(check_filler_words(self)), total_word_count),
             profane_words   |-> ProfaneFeedback(Len(check_profanity(self))),
             slang_words     |-> SlangFeedback(Len(check_slang_words(self))),
             word_repetition |-> RepetitionFeedback(Cardinality(DOMAIN check_word_repetition(self)))])

\* what summary() prints once generate_feedback has returned
SummaryReport(self, feedback) ==
    [audio           |-> self.path_to_audio,
     text            |-> self.text_from_speech,
     word_count      |-> Len(self.word_list),
     speech_speed    |-> check_speech_speed(self).value,
     filler_words    |-> check_filler_words(self),
     profane_words   |-> check_profanity(self),
     slang_words     |-> check_slang_words(self),
     word_repetition |-> check_word_repetition(self),
     feedback        |-> feedback]

-----------------------------------------------------------------------------
(* State *)

Threads == 1..MaxThreads

NoCall == [method |-> "none", outcome |-> "none", value |-> None]
Call(method, result) ==
    [method |-> method, outcome |-> result.outcome, value |-> result.value]

\* mutant: the thread reads the loop variable of main.py when it runs
AudioOfLoopVariable(t) == audio_files[next_audio - 1]

\* the argument of get_summary in thread t: args=(audio,) at thread creation
AudioOf(t) == audio_files[t]

\* Before __init__ assigns an attribute the object does not have it: pc[t]
\* tells which attributes exist, and until then the variable holds an empty
\* value of the attribute's type.
NoAudio == AudioFile(FALSE, 0, FALSE, <<>>)
NoAudioData == [channels |-> 0, sample_rate |-> 0, duration |-> 0]

InitObjects ==
    /\ opens = [t \in Threads |-> [l \in LexiconNames |-> 0]]
    /\ path_to_audio = [t \in Threads |-> NoAudio]
    /\ audio_data = [t \in Threads |-> NoAudioData]
    /\ text_from_speech = [t \in Threads |-> <<>>]
    /\ word_list = [t \in Threads |-> <<>>]
    /\ filtered_word_list = [t \in Threads |-> <<>>]
    /\ filler_words = [t \in Threads |-> <<>>]
    /\ profane_words = [t \in Threads |-> <<>>]
    /\ slang_words = [t \in Threads |-> <<>>]
    /\ ret = [t \in Threads |-> NoCall]
    /\ stdout = [t \in Threads |-> <<>>]

\* main.py: the files are globbed (distinct files, at most MaxThreads of
\* them), no thread is started yet
Init ==
    /\ audio_files \in {q \in SeqsUpTo(MainFiles, MaxThreads) :
                            \A i, j \in DOMAIN q : q[i] = q[j] => i = j}
    /\ data_files \in {PlainDir, NoSlangDir}
    /\ next_audio = 1
    /\ pc = [t \in Threads |-> "unstarted"]
    /\ InitObjects

\* one SpeechFeedbackGenerator about to be constructed on one audio file
\* (every short transcript with every data_files/; the two numeric families
\* with the lexicons as shipped)
InitAnalysis ==
    /\ \/ /\ audio_files \in {<<f>> : f \in AnalysisFiles}
          /\ data_files \in DataDirs
       \/ /\ audio_files \in {<<f>> : f \in RateFiles \cup LongFiles}
          /\ data_files = PlainDir
    /\ next_audio = 2
    /\ pc = [t \in Threads |-> IF t = 1 THEN "start" ELSE "unstarted"]
    /\ InitObjects

-----------------------------------------------------------------------------
(* main.py *)

\* thread = Thread(target=get_summary, args=(audio,)); thread.start()
StartThread ==
    /\ next_audio <= Len(audio_files)
    /\ pc' = [pc EXCEPT ![next_audio] = "start"]
    /\ next_audio' = next_audio + 1
    /\ UNCHANGED <<audio_files, data_files, opens, attrs, ret, stdout>>

-----------------------------------------------------------------------------
(* SpeechFeedbackGenerator.__init__, statement by statement *)

\* an exception leaves __init__ (and get_summary: the thread ends with it)
InitRaises(t, e) ==
    /\ pc' = [pc EXCEPT ![t] = "raised"]
    /\ ret' = [ret EXCEPT ![t] = Call("__init__", Raise(e))]

AudioOpen(t) ==
    /\ pc[t] = "start"
    /\ path_to_audio' = [path_to_audio EXCEPT ![t] = AudioOf(t)]
    /\ IF AudioOf(t).decodable
       THEN /\ audio_data' = [audio_data EXCEPT ![t] =
                    [channels    |-> AudioOf(t).channels,
                     sample_rate |-> AudioOf(t).sample_rate,
                     duration    |-> AudioOf(t).duration]]
            /\ pc' = [pc EXCEPT ![t] = "opened"]
            /\ ret' = ret
       ELSE /\ InitRaises(t, "DecodeError")
            /\ audio_data' = audio_data
    /\ UNCHANGED <<audio_files, next_audio, data_files, opens, text_from_speech,
                   word_list, filtered_word_list, filler_words, profane_words,
                   slang_words, stdout>>

\* the two lines __init__ prints around the recognition request
ProgressLines == <<"Trying to recognize the speech...", "Recognition completed.">>

Recognize(t) ==
    /\ pc[t] = "opened"
    /\ IF AudioOf(t).recognizable
       THEN /\ text_from_speech' = [text_from_speech EXCEPT ![t] = AudioOf(t).transcript]
            /\ stdout' = [stdout EXCEPT ![t] = @ \o ProgressLines]
            /\ pc' = [pc EXCEPT ![t] = "recognized"]
            /\ ret' = ret
       ELSE /\ InitRaises(t, "ApiException")
            /\ stdout' = [stdout EXCEPT ![t] = Append(@, Head(ProgressLines))]
            /\ text_from_speech' = text_from_speech
    /\ UNCHANGED <<audio_files, next_audio, data_files, opens, path_to_audio,
                   audio_data, word_list, filtered_word_list, filler_words,
                   profane_words, slang_words>>

\* mutant: nothing is filtered out
FilterNothing(words) == words

\* [word for word in self.word_list if not word.lower() in stop_words]
FilterStopWords(words) == SelectSeq(words, LAMBDA word : Lower(word) \notin StopWords)

Tokenize(t) ==
    /\ pc[t] = "recognized"
    /\ LET words == Split(text_from_speech[t])
       IN  /\ word_list' = [word_list EXCEPT ![t] = words]
           /\ filtered_word_list' = [filtered_word_list EXCEPT ![t] = FilterStopWords(words)]
    /\ pc' = [pc EXCEPT ![t] = "tokenized"]
    /\ UNCHANGED <<audio_files, next_audio, data_files, opens, path_to_audio,
                   audio_data, text_from_speech, filler_words, profane_words,
                   slang_words, ret, stdout>>

\* mutant: the lexicon is read by the first thread that needs it and kept
\* for the whole process
ReadLexiconOnce(t, name, from, to, lexicon) ==
    /\ pc[t] = from
    /\ IF ~data_files[name].exists
       THEN /\ InitRaises(t, "FileNotFoundError")
            /\ UNCHANGED <<opens, lexicon>>
       ELSE /\ lexicon' = [lexicon EXCEPT ![t] = SplitLines(data_files[name].content)]
            /\ opens' = IF \E u \in Threads : opens[u][name] > 0 THEN opens
                        ELSE [opens EXCEPT ![t][name] = @ + 1]
            /\ pc' = [pc EXCEPT ![t] = to]
            /\ ret' = ret
    /\ UNCHANGED <<audio_files, next_audio, data_files, path_to_audio, audio_data,
                   text_from_speech, word_list, filtered_word_list, stdout>>

\* with open("data_files/<name>_words.txt", "r") as f: ... f.read().split("\n")
ReadLexicon(t, name, from, to, lexicon) ==
    /\ pc[t] = from
    /\ IF ~data_files[name].exists
       THEN /\ InitRaises(t, "FileNotFoundError")
            /\ UNCHANGED <<opens, lexicon>>
       ELSE /\ lexicon' = [lexicon EXCEPT ![t] = SplitLines(data_files[name].content)]
            /\ opens' = [opens EXCEPT ![t][name] = @ + 1]
            /\ pc' = [pc EXCEPT ![t] = to]
            /\ ret' = ret
    /\ UNCHANGED <<audio_files, next_audio, data_files, path_to_audio, audio_data,
                   text_from_speech, word_list, filtered_word_list, stdout>>

OpenFiller(t) ==
    /\ ReadLexicon(t, "filler", "tokenized", "filler_loaded", filler_words)
    /\ UNCHANGED <<profane_words, slang_words>>

OpenProfane(t) ==
    /\ ReadLexicon(t, "profane", "filler_loaded", "profane_loaded", profane_words)
    /\ UNCHANGED <<filler_words, slang_words>>

OpenSlang(t) ==
    /\ ReadLexicon(t, "slang", "profane_loaded", "ready", slang_words)
    /\ UNCHANGED <<filler_words, profane_words>>

Construct(t) ==
    \/ AudioOpen(t)
    \/ Recognize(t)
    \/ Tokenize(t)
    \/ OpenFiller(t)
    \/ OpenProfane(t)
    \/ OpenSlang(t)

-----------------------------------------------------------------------------
(* Calls on a constructed object *)

\* summary(): generate_feedback, then the prints
SummaryCall(t) ==
    LET feedback == generate_feedback(Self(t))
    IN  /\ ret' = [ret EXCEPT ![t] =
                Call("summary", IF feedback.outcome = "raise" THEN feedback ELSE Return(None))]
        /\ stdout' = [stdout EXCEPT ![t] =
                IF feedback.outcome = "raise" THEN @
                ELSE Append(@, SummaryReport(Self(t), feedback.value))]

\* get_summary: sfg.summary(), then the thread ends
RunSummary(t) ==
    /\ pc[t] = "ready"
    /\ SummaryCall(t)
    /\ pc' = [pc EXCEPT ![t] = IF ret'[t].outcome = "raise" THEN "raised" ELSE "done"]
    /\ UNCHANGED <<audio_files, next_audio, data_files, opens, attrs>>

Invoke(t, method, result) ==
    /\ pc[t] = "ready"
    /\ ret' = [ret EXCEPT ![t] = Call(method, result)]
    /\ UNCHANGED <<audio_files, next_audio, data_files, opens, pc, attrs, stdout>>

CallCheckSpeechSpeed(t) == Invoke(t, "check_speech_speed", check_speech_speed(Self(t)))
CallCheckWordRepetition(t) ==
    Invoke(t, "check_word_repetition", Return(check_word_repetition(Self(t))))
CallCheckFillerWords(t) == Invoke(t, "check_filler_words", Return(check_filler_words(Self(t))))
CallCheckProfanity(t) == Invoke(t, "check_profanity", Return(check_profanity(Self(t))))
CallCheckSlangWords(t) == Invoke(t, "check_slang_words", Return(check_slang_words(Self(t))))
CallGenerateFeedback(t) == Invoke(t, "generate_feedback", generate_feedback(Self(t)))

\* summary() is called until it has printed its report once
CallSummary(t) ==
    /\ pc[t] = "ready"
    /\ Len(stdout[t]) = Len(ProgressLines)
    /\ SummaryCall(t)
    /\ UNCHANGED <<audio_files, next_audio, data_files, opens, pc, attrs>>

-----------------------------------------------------------------------------
(* Specifications *)

\* main.py: one thread per audio file, each running get_summary
Next ==
    \/ StartThread
    \/ \E t \in Threads : Construct(t) \/ RunSummary(t)

Spec == Init /\ [][Next]_vars

\* the threads are scheduled: a thread that can take its next step takes it
SpecFair == Spec /\ \A t \in Threads : WF_vars(Construct(t) \/ RunSummary(t))

\* one object: its construction, then any of its methods in any order
NextAnalysis ==
    \E t \in Threads :
        \/ Construct(t)
        \/ CallCheckSpeechSpeed(t)
        \/ CallCheckWordRepetition(t)
        \/ CallCheckFillerWords(t)
        \/ CallCheckProfanity(t)
        \/ CallCheckSlangWords(t)
        \/ CallGenerateFeedback(t)
        \/ CallSummary(t)

SpecAnalysis == InitAnalysis /\ [][NextAnalysis]_vars

-----------------------------------------------------------------------------
(* Claims *)

\* method m was the last call on object t
Called(t, m) == pc[t] = "ready" /\ ret[t].method = m
Returned(t, m) == Called(t, m) /\ ret[t].outcome = "return"
Raised(t, m, e) == Called(t, m) /\ ret[t].outcome = "raise" /\ ret[t].value = e

\* how many times x occurs in the sequence q
Occurrences(x, q) == Cardinality({i \in DOMAIN q : q[i] = x})

\* C1: when the audio duration is zero or negative, the speech-rate
\* computation (check_speech_speed, generate_feedback, summary) ends in
\* InvalidAudioDurationError, never in a number, a message or a raw
\* divide-by-zero fault.
C1_InvalidDurationRaises ==
    \A t \in Threads : \A m \in {"check_speech_speed", "generate_feedback", "summary"} :
        (Called(t, m) /\ audio_data[t].duration <= 0)
            => Raised(t, m, "InvalidAudioDurationError")

\* C2: when the transcript has no token and the duration is positive,
\* generate_feedback ends in EmptyTranscriptError, not in a divide-by-zero
\* fault, and produces no filler_words message.
C2_EmptyTranscriptRaises ==
    \A t \in Threads :
        (Called(t, "generate_feedback") /\ Len(word_list[t]) = 0
                /\ audio_data[t].duration > 0)
            => Raised(t, "generate_feedback", "EmptyTranscriptError")

\* C5: for n >= 1 words and duration d > 0, generate_feedback returns, and its
\* speech_speed message is the 'faster' one iff n/d*60 > 160, the 'slower' one
\* iff n/d*60 < 140, and the 'within range' one iff 140 <= n/d*60 <= 160.
\* (d is duration/DurDen seconds, so n/d*60 > 160 is n*DurDen*60 > 160*duration.)
C5_SpeedThresholds ==
    \A t \in Threads :
        (Called(t, "generate_feedback") /\ Len(word_list[t]) >= 1
                /\ audio_data[t].duration > 0)
            => LET n   == Len(word_list[t])
                   dur == audio_data[t].duration
                   msg == ret[t].value.speech_speed
               IN  /\ ret[t].outcome = "return"
                   /\ msg \in {SpeedFast, SpeedSlow, SpeedOk}
                   /\ (msg = SpeedFast) <=> (n * DurDen * 60 > 160 * dur)
                   /\ (msg = SpeedSlow) <=> (n * DurDen * 60 < 140 * dur)
                   /\ (msg = SpeedOk) <=> (/\ 140 * dur <= n * DurDen * 60
                                           /\ n * DurDen * 60 <= 160 * dur)

\* C5 witness: a rate of exactly 160 words per minute was classified as within range
C5_Witness ==
    \E t \in Threads :
        /\ Returned(t, "generate_feedback")
        /\ Len(word_list[t]) * DurDen * 60 = 160 * audio_data[t].duration
        /\ ret[t].value.speech_speed = SpeedOk

\* C6: for t >= 1 words of which f are fillers, generate_feedback gives the
\* 'higher than recommended' filler_words message iff f/t*100 > 1.28, that is
\* iff 10000*f > 128*t, and the 'within recommended range' message otherwise.
C6_FillerThreshold ==
    \A t \in Threads :
        Returned(t, "generate_feedback")
            => LET total   == Len(word_list[t])
                   fillers == Cardinality({i \in DOMAIN word_list[t] :
                                  \/ InList(Lower(word_list[t][i]), filler_words[t])
                                  \/ word_list[t][i] = HESITATION})
                   msg     == ret[t].value.filler_words
               IN  /\ total >= 1
                   /\ msg = IF 10000 * fillers > 128 * total THEN FillerHigh ELSE FillerOk

\* C6 witness: a ratio of exactly 1.28 percent was classified as within range
C6_Witness ==
    \E t \in Threads :
        /\ Returned(t, "generate_feedback")
        /\ Len(check_filler_words(Self(t))) > 0
        /\ 10000 * Len(check_filler_words(Self(t))) = 128 * Len(word_list[t])
        /\ ret[t].value.filler_words = FillerOk

\* the key the claims give a token: its lower-cased form, the literal
\* '%HESITATION' keeping its own
KeyOfToken(w) == IF w = HESITATION THEN HESITATION ELSE Lower(w)

\* the keys a token of the model can have
CandidateKeys == {KeyOfToken(w) : w \in Vocabulary} \cup Vocabulary

\* how many tokens of q have key k
KeyCount(k, q) == Cardinality({i \in DOMAIN q : KeyOfToken(q[i]) = k})

\* C7: check_word_repetition returns a mapping that holds key k with value c
\* iff c > 1 and c is the number of tokens of the stop-word-filtered list whose
\* key is k; no entry has a count of 1 or less and a word occurring once is absent.
C7_RepeatedWords ==
    \A t \in Threads :
        Called(t, "check_word_repetition")
            => LET repeated == ret[t].value
                   filtered == filtered_word_list[t]
               IN  /\ ret[t].outcome = "return"
                   /\ DOMAIN repeated \subseteq CandidateKeys
                   /\ \A k \in CandidateKeys :
                        /\ (k \in DOMAIN repeated) <=> (KeyCount(k, filtered) > 1)
                        /\ (k \in DOMAIN repeated) => (repeated[k] = KeyCount(k, filtered))

\* C7 witness: one key was reported with its count and a word occurring once was left out
C7_Witness ==
    \E t \in Threads :
        /\ Returned(t, "check_word_repetition")
        /\ \E k \in DOMAIN ret[t].value : ret[t].value[k] = 2
        /\ \E k \in CandidateKeys :
                KeyCount(k, filtered_word_list[t]) = 1 /\ k \notin DOMAIN ret[t].value

\* the positions of q whose token satisfies Match, and the k-th of them
MatchingPositions(q, Match(_)) == {i \in DOMAIN q : Match(q[i])}
KthPosition(P, k) == CHOOSE i \in P : Cardinality({j \in P : j <= i}) = k

\* r is the subsequence of q made of the tokens satisfying Match: same
\* tokens, same order, same casing, same number of occurrences, nothing else
IsMatchingSubsequence(r, q, Match(_)) ==
    LET P == MatchingPositions(q, Match)
    IN  /\ Len(r) = Cardinality(P)
        /\ \A k \in 1..Len(r) : r[k] = q[KthPosition(P, k)]
        /\ \A w \in Vocabulary :
                Occurrences(w, r) = IF Match(w) THEN Occurrences(w, q) ELSE 0

\* C8: check_filler_words, check_profanity and check_slang_words each return
\* exactly the subsequence of the token list made of the matching tokens: a
\* token matches when its lower-cased form is a line of the lexicon (or, for
\* fillers, when it is the literal '%HESITATION').
C8_DetectorsKeepTokens ==
    \A t \in Threads :
        /\ Called(t, "check_filler_words") =>
                /\ ret[t].outcome = "return"
                /\ IsMatchingSubsequence(ret[t].value, word_list[t],
                        LAMBDA w : InList(Lower(w), filler_words[t]) \/ w = HESITATION)
        /\ Called(t, "check_profanity") =>
                /\ ret[t].outcome = "return"
                /\ IsMatchingSubsequence(ret[t].value, word_list[t],
                        LAMBDA w : InList(Lower(w), profane_words[t]))
        /\ Called(t, "check_slang_words") =>
                /\ ret[t].outcome = "return"
                /\ IsMatchingSubsequence(ret[t].value, word_list[t],
                        LAMBDA w : InList(Lower(w), slang_words[t]))

\* C8 witness: profanity detection returned an upper-case token twice, among
\* tokens that do not match
C8_Witness ==
    \E t \in Threads :
        /\ Returned(t, "check_profanity")
        /\ ret[t].value = <<UM, UM>>
        /\ Len(word_list[t]) = 3

\* a token whose lower-cased form is a stop word and a line of the lexicon
StopWordIn(lexicon, w) == Lower(w) \in StopWords /\ InList(Lower(w), lexicon)

\* C9: a token whose lower-cased form is both a stop word and an entry of a
\* lexicon is reported by that lexicon's detector once per occurrence, and is
\* never a key of the repeated-words mapping (under its own or its lower-cased
\* form), however often it occurs: in the values the methods return and in
\* the report summary() prints.
C9_StopWordAsymmetry ==
    \A t \in Threads : \A w \in Vocabulary :
        /\ (Called(t, "check_filler_words") /\ StopWordIn(filler_words[t], w))
                => Occurrences(w, ret[t].value) = Occurrences(w, word_list[t])
        /\ (Called(t, "check_profanity") /\ StopWordIn(profane_words[t], w))
                => Occurrences(w, ret[t].value) = Occurrences(w, word_list[t])
        /\ (Called(t, "check_slang_words") /\ StopWordIn(slang_words[t], w))
                => Occurrences(w, ret[t].value) = Occurrences(w, word_list[t])
        /\ (Called(t, "check_word_repetition") /\ Lower(w) \in StopWords)
                => (w \notin DOMAIN ret[t].value /\ Lower(w) \notin DOMAIN ret[t].value)
        /\ (pc[t] = "ready" /\ Len(stdout[t]) > Len(ProgressLines)) =>
                LET report == stdout[t][Len(stdout[t])]
                IN  /\ StopWordIn(filler_words[t], w) =>
                        Occurrences(w, report.filler_words) = Occurrences(w, word_list[t])
                    /\ StopWordIn(profane_words[t], w) =>
                        Occurrences(w, report.profane_words) = Occurrences(w, word_list[t])
                    /\ StopWordIn(slang_words[t], w) =>
                        Occurrences(w, report.slang_words) = Occurrences(w, word_list[t])
                    /\ Lower(w) \in StopWords =>
                        /\ w \notin DOMAIN report.word_repetition
                        /\ Lower(w) \notin DOMAIN report.word_repetition

\* C9 witness: summary() reported a stop word of the filler lexicon three times
\* as a filler and not at all as a repeated word
C9_Witness ==
    \E t \in Threads :
        /\ pc[t] = "ready"
        /\ Len(stdout[t]) > Len(ProgressLines)
        /\ StopWordIn(filler_words[t], The)
        /\ stdout[t][Len(stdout[t])].filler_words = <<The, The, The>>
        /\ the \notin DOMAIN stdout[t][Len(stdout[t])].word_repetition

\* a token that is the sentinel in another casing
IsVariant(w) == w # HESITATION /\ Lower(w) = Lower(HESITATION)

\* C10: the hesitation sentinel is matched only as the exact token
\* '%HESITATION': every such token survives stop-word filtering, is counted in
\* repetition under the literal key and never merged with another casing, and
\* is reported by filler detection whatever the filler lexicon holds; another
\* casing is a filler only if its lower-cased form is in the filler lexicon.
C10_HesitationSentinel ==
    \A t \in Threads :
        /\ pc[t] = "ready" =>
                Occurrences(HESITATION, filtered_word_list[t])
                    = Occurrences(HESITATION, word_list[t])
        /\ Called(t, "check_word_repetition") =>
                LET repeated == ret[t].value
                    exact    == Occurrences(HESITATION, word_list[t])
                    variants == Cardinality({i \in DOMAIN word_list[t] : IsVariant(word_list[t][i])})
                IN  /\ (HESITATION \in DOMAIN repeated) <=> (exact > 1)
                    /\ (HESITATION \in DOMAIN repeated) => (repeated[HESITATION] = exact)
                    /\ (Lower(HESITATION) \in DOMAIN repeated) <=> (variants > 1)
                    /\ (Lower(HESITATION) \in DOMAIN repeated) =>
                            (repeated[Lower(HESITATION)] = variants)
        /\ Called(t, "check_filler_words") =>
                /\ Occurrences(HESITATION, ret[t].value) = Occurrences(HESITATION, word_list[t])
                /\ \A w \in Vocabulary : IsVariant(w) =>
                        Occurrences(w, ret[t].value) =
                            IF InList(Lower(w), filler_words[t])
                            THEN Occurrences(w, word_list[t]) ELSE 0

\* C10 witness: two sentinels and one lower-cased variant were counted as
\* '%HESITATION' twice, with a filler lexicon that holds neither
C10_Witness ==
    \E t \in Threads :
        /\ Returned(t, "check_word_repetition")
        /\ Occurrences(HESITATION, word_list[t]) = 2
        /\ Occurrences(hesitation, word_list[t]) = 1
        /\ ~InList(HESITATION, filler_words[t])
        /\ ~InList(hesitation, filler_words[t])
        /\ ret[t].value[HESITATION] = 2

\* what thread t's own audio file and data_files/ determine: whether each of
\* its steps succeeds, and the report it prints
OwnFile(t) == audio_files[t]

OwnStepsSucceed(t) ==
    /\ t <= Len(audio_files)
    /\ OwnFile(t).decodable
    /\ OwnFile(t).recognizable
    /\ \A l \in LexiconNames : data_files[l].exists
    /\ OwnFile(t).duration > 0
    /\ \E i \in DOMAIN OwnFile(t).transcript : OwnFile(t).transcript[i] \notin Whitespace

OwnObject(t) ==
    [path_to_audio      |-> OwnFile(t),
     audio_data         |-> [channels    |-> OwnFile(t).channels,
                             sample_rate |-> OwnFile(t).sample_rate,
                             duration    |-> OwnFile(t).duration],
     text_from_speech   |-> OwnFile(t).transcript,
     word_list          |-> Split(OwnFile(t).transcript),
     filtered_word_list |-> FilterStopWords(Split(OwnFile(t).transcript)),
     filler_words       |-> SplitLines(data_files["filler"].content),
     profane_words      |-> SplitLines(data_files["profane"].content),
     slang_words        |-> SplitLines(data_files["slang"].content)]

OwnOutput(t) ==
    ProgressLines \o
        <<SummaryReport(OwnObject(t), generate_feedback(OwnObject(t)).value)>>

\* C3: with one thread per audio file, under every interleaving, a thread
\* whose own steps succeed runs to completion whatever happens to the others
\* (it never ends with an exception, and once started it ends up done), and
\* what it has printed is determined by its own audio file alone.
C3_TaskIsolation ==
    /\ [](\A t \in Threads :
            /\ pc[t] = "done" => stdout[t] = OwnOutput(t)
            /\ pc[t] = "raised" => ~OwnStepsSucceed(t))
    /\ \A t \in Threads : (pc[t] = "start" /\ OwnStepsSucceed(t)) ~> (pc[t] = "done")

\* C3 witness: one thread ended with an exception and another printed its report
C3_Witness ==
    \E t, u \in Threads :
        /\ pc[t] = "raised"
        /\ pc[u] = "done"
        /\ Len(stdout[u]) > Len(ProgressLines)

RECURSIVE SumOpens(_, _)
SumOpens(l, T) ==
    IF T = {} THEN 0
    ELSE LET t == CHOOSE x \in T : TRUE
         IN  opens[t][l] + SumOpens(l, T \ {t})

RecognitionCompleted(t) ==
    Len(stdout[t]) >= Len(ProgressLines) /\ stdout[t][2] = ProgressLines[2]

=============================================================================
